---- MODULE Spec2Model ----
(***************************************************************************)
(* NurseShiftly: optimize_schedule (src/scheduling.py) as a state machine. *)
(* One call runs through four steps: the lookups are built from the input  *)
(* tables, the MILP is built, the engine solves it, the values are read    *)
(* back into the returned tables.  The engine (CBC behind PuLP) is an      *)
(* exact oracle: it reports Optimal with any one optimal point of the      *)
(* model, or Infeasible when the model has no feasible point.              *)
(***************************************************************************)
EXTENDS Integers, Sequences, FiniteSets, TLC

VARIABLES
    nurses_df, shifts_df, availability_df, preferences_df,
    allow_overtime, overtime_cost, allow_understaff, understaff_penalty,
    preference_weight,
    pc,
    nurses, shifts, shift_hours, shift_demand, shift_skill,
    nurse_max_hours, nurse_skill, availability_lookup, preference_lookup,
    model, x, o, u, status,
    assignments_df, overtime_dict, unmet_demand,
    history

tables == <<nurses_df, shifts_df, availability_df, preferences_df>>
weights == <<allow_overtime, overtime_cost, allow_understaff, preference_weight>>
lookups == <<nurses, shifts, shift_hours, shift_demand, shift_skill,
             nurse_max_hours, nurse_skill, availability_lookup, preference_lookup>>
solved == <<x, o, u, status>>
returned == <<assignments_df, overtime_dict, unmet_demand>>
vars == <<tables, weights, understaff_penalty, pc, lookups, model, solved,
          returned, history>>

(***************************************************************************)
(* Bounds of the model.                                                    *)
(***************************************************************************)
\* Largest headcount a shift asks for.
MaxDemand == 2
\* Largest value of an overtime variable the engine reports, in 8-hour steps.
MaxOvertimeSteps == 2

\* the values of an unmet-demand variable the engine reports
UnmetVals == 0..MaxDemand
\* the values of an overtime variable the engine reports
OvertimeVals == {8 * k : k \in 0..MaxOvertimeSteps}

(***************************************************************************)
(* Generic helpers: pandas columns, dicts, sums.                           *)
(***************************************************************************)
Range(seq) == {seq[i] : i \in 1..Len(seq)}

Maximum(S) == CHOOSE m \in S : \A k \in S : k <= m

Minimum(S) == CHOOSE m \in S : \A k \in S : m <= k

RECURSIVE SumFirst(_, _)
\* the sum of the first k terms
SumFirst(terms, k) == IF k = 0 THEN 0 ELSE terms[k] + SumFirst(terms, k - 1)

\* lpSum(...) / sum(...) of a sequence of terms
Sum(terms) == SumFirst(terms, Len(terms))

RECURSIVE Unique(_)
\* Series.unique(): the distinct values in order of first appearance
Unique(seq) ==
    IF seq = <<>> THEN <<>>
    ELSE LET front == Unique(SubSeq(seq, 1, Len(seq) - 1))
             last == seq[Len(seq)]
         IN IF last \in Range(front) THEN front ELSE Append(front, last)

\* df[col] as a sequence
Column(df, col) == [i \in 1..Len(df) |-> df[i][col]]

\* dict(zip(keys, vals)): a later row overwrites an earlier one
DictZip(keys, vals) ==
    [k \in Range(keys) |-> vals[Maximum({i \in 1..Len(keys) : keys[i] = k})]]

\* the loop "for _, row in df.iterrows(): d[(nurse_id, shift_id)] = row[col]"
PairLookup(df, col) ==
    DictZip([i \in 1..Len(df) |-> <<df[i].nurse_id, df[i].shift_id>>],
            Column(df, col))

\* dict.get(key, default)
Get(d, key, default) == IF key \in DOMAIN d THEN d[key] ELSE default

\* str.upper() on the skill names the tables use
Upper(str) ==
    CASE str = "icu" -> "ICU"
      [] str = "Icu" -> "ICU"
      [] str = "general" -> "GENERAL"
      [] OTHER -> str

\* preferences_df is None, or a table
NoTable == [present |-> FALSE, rows |-> <<>>]
Table(rows) == [present |-> TRUE, rows |-> rows]

(***************************************************************************)
(* Step 1: the identifier sets and the lookups.                            *)
(***************************************************************************)
\* preference_lookup is filled only for a non-empty table and a non-zero weight
BuildPreferenceLookup ==
    IF preferences_df.present /\ preferences_df.rows # <<>> /\ preference_weight # 0
    THEN PairLookup(preferences_df.rows, "score")
    ELSE <<>>

BuildAvailabilityLookup == PairLookup(availability_df, "available")

EntityIndex ==
    /\ pc = "start"
    /\ nurses' = Unique(Column(nurses_df, "nurse_id"))
    /\ shifts' = Unique(Column(shifts_df, "shift_id"))
    /\ shift_hours' = DictZip(Column(shifts_df, "shift_id"), Column(shifts_df, "hours"))
    /\ shift_demand' = DictZip(Column(shifts_df, "shift_id"), Column(shifts_df, "demand"))
    /\ shift_skill' =
           DictZip(Column(shifts_df, "shift_id"), Column(shifts_df, "required_skill"))
    /\ nurse_max_hours' =
           DictZip(Column(nurses_df, "nurse_id"), Column(nurses_df, "max_hours_per_week"))
    /\ nurse_skill' = DictZip(Column(nurses_df, "nurse_id"), Column(nurses_df, "skill_level"))
    /\ availability_lookup' = BuildAvailabilityLookup
    /\ preference_lookup' = BuildPreferenceLookup
    /\ pc' = "indexed"
    /\ UNCHANGED <<tables, weights, understaff_penalty, model, solved, returned, history>>

(***************************************************************************)
(* Step 2: the MILP.  A constraint is a record                             *)
(*   [kind, n, s, coef, rhs]                                                *)
(* whose meaning Satisfies gives; the objective is the coefficient of each *)
(* decision variable in the expression to minimize.                        *)
(***************************************************************************)
NurseSet == Range(nurses)
ShiftSet == Range(shifts)

Constraint(kind, n, s, coef, rhs) ==
    [kind |-> kind, n |-> n, s |-> s, coef |-> coef, rhs |-> rhs]

\* Variant: the understaffing term is left out of the objective.
ObjectiveWithoutPenalty ==
    [o |-> [n \in NurseSet |-> overtime_cost],
     u |-> [s \in ShiftSet |-> 0],
     x |-> [n \in NurseSet |-> [s \in ShiftSet |->
              0 - preference_weight * Get(preference_lookup, <<n, s>>, 0)]]]

\* Variant: the two weights are swapped, understaff_penalty on the overtime
\* and overtime_cost on the unmet demand.
ObjectiveWeightsSwapped ==
    [o |-> [n \in NurseSet |-> understaff_penalty],
     u |-> [s \in ShiftSet |-> overtime_cost],
     x |-> [n \in NurseSet |-> [s \in ShiftSet |->
              0 - preference_weight * Get(preference_lookup, <<n, s>>, 0)]]]

\* overtime_cost * o[n] + understaff_penalty * u[s]
\*   - preference_weight * preference_lookup.get((n, s), 0.0) * x[n][s]
Objective ==
    [o |-> [n \in NurseSet |-> overtime_cost],
     u |-> [s \in ShiftSet |-> understaff_penalty],
     x |-> [n \in NurseSet |-> [s \in ShiftSet |->
              0 - preference_weight * Get(preference_lookup, <<n, s>>, 0)]]]

\* coverage_{s}: lpSum(x[n][s] for n in nurses) + u[s] >= shift_demand[s]
CoverageConstraints ==
    {Constraint("coverage", "", s, [n \in NurseSet |-> 1], shift_demand[s]) :
        s \in ShiftSet}

\* Variant: the test on allow_understaff is inverted.
NoUnderstaffConstraintsInverted ==
    IF allow_understaff
    THEN {Constraint("no_understaff", "", s, <<>>, 0) : s \in ShiftSet}
    ELSE {}

\* no_understaff_{s}: u[s] == 0, when understaffing is not allowed
NoUnderstaffConstraints ==
    IF ~allow_understaff
    THEN {Constraint("no_understaff", "", s, <<>>, 0) : s \in ShiftSet}
    ELSE {}

\* Variant: a pair without a row counts as available.
AvailabilityConstraintsDefaultOne ==
    {Constraint("availability", n, s, <<>>, Get(availability_lookup, <<n, s>>, 1)) :
        n \in NurseSet, s \in ShiftSet}

\* availability_{n}_{s}: x[n][s] <= availability_lookup.get((n, s), 0)
AvailabilityConstraints ==
    {Constraint("availability", n, s, <<>>, Get(availability_lookup, <<n, s>>, 0)) :
        n \in NurseSet, s \in ShiftSet}

\* Variant: the skill names are compared as written, without upper().
NeedsSkillExclusionCaseSensitive(n, s) ==
    shift_skill[s] = "ICU" /\ nurse_skill[n] # "ICU"

\* the test that guards the skill constraint
NeedsSkillExclusion(n, s) ==
    Upper(shift_skill[s]) = "ICU" /\ Upper(nurse_skill[n]) # "ICU"

\* Variant: the roles are swapped, an ICU nurse is kept off a non-ICU shift.
SkillConstraintsSwapped ==
    {Constraint("skill", pair[1], pair[2], <<>>, 0) :
        pair \in {q \in NurseSet \X ShiftSet :
                    Upper(nurse_skill[q[1]]) = "ICU" /\ Upper(shift_skill[q[2]]) # "ICU"}}

\* skill_{n}_{s}: x[n][s] == 0 for a non-ICU nurse on an ICU shift
SkillConstraints ==
    {Constraint("skill", pair[1], pair[2], <<>>, 0) :
        pair \in {q \in NurseSet \X ShiftSet : NeedsSkillExclusion(q[1], q[2])}}

\* Variant: the shifts are counted, not their hours.
HourLimitConstraintsUnweighted ==
    {Constraint("hour_limit", n, "", [s \in ShiftSet |-> 1], nurse_max_hours[n]) :
        n \in NurseSet}

\* hour_limit_{n}: lpSum(shift_hours[s] * x[n][s] for s in shifts) <= max_hours + o[n]
HourLimitConstraints ==
    {Constraint("hour_limit", n, "", [s \in ShiftSet |-> shift_hours[s]],
                nurse_max_hours[n]) : n \in NurseSet}

\* Variant: the test on allow_overtime is inverted.
NoOvertimeConstraintsInverted ==
    IF allow_overtime
    THEN {Constraint("no_overtime", n, "", <<>>, 0) : n \in NurseSet}
    ELSE {}

\* Variant: overtime is never pinned to zero.
NoOvertimeConstraintsOmitted == {}

\* no_overtime_{n}: o[n] == 0, when overtime is not allowed
NoOvertimeConstraints ==
    IF ~allow_overtime
    THEN {Constraint("no_overtime", n, "", <<>>, 0) : n \in NurseSet}
    ELSE {}

BuildModel ==
    /\ pc = "indexed"
    /\ model' = [nurses |-> nurses,
                 shifts |-> shifts,
                 objective |-> Objective,
                 constraints |-> CoverageConstraints \cup NoUnderstaffConstraints
                                 \cup AvailabilityConstraints \cup SkillConstraints
                                 \cup HourLimitConstraints \cup NoOvertimeConstraints]
    /\ pc' = "built"
    /\ UNCHANGED <<tables, weights, understaff_penalty, lookups, solved, returned,
                   history>>

(***************************************************************************)
(* Step 3: the engine.  The decision variables are x (binary), o and u     *)
(* (continuous, lower bound 0); the engine's values for o and u are taken  *)
(* from the grids OvertimeVals and UnmetVals.                              *)
(***************************************************************************)
XDomain(m) == [Range(m.nurses) -> [Range(m.shifts) -> {0, 1}]]
ODomain(m) == [Range(m.nurses) -> OvertimeVals]
UDomain(m) == [Range(m.shifts) -> UnmetVals]

\* whether the values vx, vo, vu satisfy constraint c of model m
Satisfies(m, c, vx, vo, vu) ==
    CASE c.kind = "coverage" ->
           Sum([i \in 1..Len(m.nurses) |-> c.coef[m.nurses[i]] * vx[m.nurses[i]][c.s]])
             + vu[c.s] >= c.rhs
      [] c.kind = "no_understaff" -> vu[c.s] = c.rhs
      [] c.kind = "availability" -> vx[c.n][c.s] <= c.rhs
      [] c.kind = "skill" -> vx[c.n][c.s] = c.rhs
      [] c.kind = "hour_limit" ->
           Sum([j \in 1..Len(m.shifts) |-> c.coef[m.shifts[j]] * vx[c.n][m.shifts[j]]])
             <= c.rhs + vo[c.n]
      [] c.kind = "no_overtime" -> vo[c.n] = c.rhs

\* the value of the objective at vx, vo, vu
ObjectiveValue(m, vx, vo, vu) ==
    Sum([i \in 1..Len(m.nurses) |-> m.objective.o[m.nurses[i]] * vo[m.nurses[i]]])
    + Sum([j \in 1..Len(m.shifts) |-> m.objective.u[m.shifts[j]] * vu[m.shifts[j]]])
    + Sum([i \in 1..Len(m.nurses) |->
             Sum([j \in 1..Len(m.shifts) |->
                    m.objective.x[m.nurses[i]][m.shifts[j]]
                      * vx[m.nurses[i]][m.shifts[j]]])])

\* all constraints of m hold at vx, vo, vu
Feasible(m, vx, vo, vu) == \A c \in m.constraints : Satisfies(m, c, vx, vo, vu)

\* the constraints of m of the given kinds hold at vx, vo, vu
Hold(m, kinds, vx, vo, vu) ==
    \A c \in m.constraints : c.kind \in kinds => Satisfies(m, c, vx, vo, vu)

\* The feasible points of m are enumerated variable by variable: the values of
\* x that meet the constraints over x alone, then for each of them the values
\* of o and the values of u that meet the constraints tying them to x.
\* (Each set is written {e : e \in ...} so that it is enumerated once.)
FeasibleX(m) ==
    {e : e \in {vx \in XDomain(m) : Hold(m, {"availability", "skill"}, vx, <<>>, <<>>)}}

FeasibleO(m, vx) ==
    {e : e \in {vo \in ODomain(m) :
                  Hold(m, {"hour_limit", "no_overtime"}, vx, vo, <<>>)}}

FeasibleU(m, vx) ==
    {e : e \in {vu \in UDomain(m) :
                  Hold(m, {"coverage", "no_understaff"}, vx, <<>>, vu)}}

\* the objective values the feasible points of m take
ObjectiveValues(m) ==
    UNION {{ObjectiveValue(m, vx, vo, vu) :
              vo \in FeasibleO(m, vx), vu \in FeasibleU(m, vx)} : vx \in FeasibleX(m)}

\* What the variables hold when the engine found the model infeasible: some
\* point of the box, here its lowest or its highest corner.
UnsolvedPoints(m) ==
    {[x |-> [n \in Range(m.nurses) |-> [s \in Range(m.shifts) |-> b]],
      o |-> [n \in Range(m.nurses) |-> b * Maximum(OvertimeVals)],
      u |-> [s \in Range(m.shifts) |-> b * Maximum(UnmetVals)]] : b \in {0, 1}}

\* model.solve(solver); status = pulp.LpStatus[model.status]
\* Optimal with a feasible point of least objective value, or Infeasible.
Solve ==
    /\ pc = "built"
    /\ \E values \in {ObjectiveValues(model)} :
         IF values = {}
         THEN /\ \E p \in UnsolvedPoints(model) : x' = p.x /\ o' = p.o /\ u' = p.u
              /\ status' = "Infeasible"
         ELSE /\ \E best \in {Minimum(values)} :
                 \E vx \in FeasibleX(model) :
                   \E vo \in FeasibleO(model, vx), vu \in FeasibleU(model, vx) :
                      /\ ObjectiveValue(model, vx, vo, vu) = best
                      /\ x' = vx /\ o' = vo /\ u' = vu
              /\ status' = "Optimal"
    /\ pc' = "solved"
    /\ UNCHANGED <<tables, weights, understaff_penalty, lookups, model, returned,
                   history>>

(***************************************************************************)
(* Step 4: the returned tables.                                            *)
(***************************************************************************)
\* int(v): the integer part of an engine value.  The engine's values are
\* whole numbers here, which int() leaves as they are.
IntPart(v) == v

\* one row per (nurse, shift), nurses outermost, both in index order
AssignmentRows ==
    [k \in 1..(Len(nurses) * Len(shifts)) |->
        LET n == nurses[((k - 1) \div Len(shifts)) + 1]
            s == shifts[((k - 1) % Len(shifts)) + 1]
        IN [nurse_id |-> n, shift_id |-> s, assigned |-> IntPart(x[n][s])]]

OvertimeDict == [n \in NurseSet |-> o[n]]

UnmetDemand == [s \in ShiftSet |-> u[s]]

ExtractResults ==
    /\ pc = "solved"
    /\ assignments_df' = AssignmentRows
    /\ overtime_dict' = OvertimeDict
    /\ unmet_demand' = UnmetDemand
    /\ pc' = "done"
    /\ UNCHANGED <<tables, weights, understaff_penalty, lookups, model, solved, history>>

(***************************************************************************)
(* The dashboard (src/app.py) calls optimize_schedule on every click of    *)
(* "Generate Schedule", with the tables loaded and the sidebar's settings. *)
(* Rerun: after a first call the penalty is changed in the sidebar and the *)
(* schedule generated once more; history keeps what the first call         *)
(* returned, so that the two calls can be compared.                        *)
(***************************************************************************)
PenaltyVals == {0, 50, 100}

Blank ==
    /\ pc = "start"
    /\ nurses = <<>> /\ shifts = <<>>
    /\ shift_hours = <<>> /\ shift_demand = <<>> /\ shift_skill = <<>>
    /\ nurse_max_hours = <<>> /\ nurse_skill = <<>>
    /\ availability_lookup = <<>> /\ preference_lookup = <<>>
    /\ model = <<>>
    /\ x = <<>> /\ o = <<>> /\ u = <<>>
    /\ status = "Not Solved"
    /\ assignments_df = <<>> /\ overtime_dict = <<>> /\ unmet_demand = <<>>

Rerun ==
    /\ pc = "done"
    /\ history = <<>>
    /\ history' = Append(history, [understaff_penalty |-> understaff_penalty,
                                   status |-> status,
                                   unmet_demand |-> unmet_demand])
    /\ \E p \in PenaltyVals \ {understaff_penalty} : understaff_penalty' = p
    /\ pc' = "start"
    /\ nurses' = <<>> /\ shifts' = <<>>
    /\ shift_hours' = <<>> /\ shift_demand' = <<>> /\ shift_skill' = <<>>
    /\ nurse_max_hours' = <<>> /\ nurse_skill' = <<>>
    /\ availability_lookup' = <<>> /\ preference_lookup' = <<>>
    /\ model' = <<>>
    /\ x' = <<>> /\ o' = <<>> /\ u' = <<>>
    /\ status' = "Not Solved"
    /\ assignments_df' = <<>> /\ overtime_dict' = <<>> /\ unmet_demand' = <<>>
    /\ UNCHANGED <<tables, weights>>

(***************************************************************************)
(* Inputs.  Two nurses A and B, two shifts S1 and S2; the tables and the   *)
(* settings are drawn from the families below.  Weights are >= 0, as the   *)
(* sidebar's number inputs enforce (min_value=0.0).                        *)
(***************************************************************************)
NurseRow(id, max, skill) ==
    [nurse_id |-> id, max_hours_per_week |-> max, skill_level |-> skill]

ShiftRow(id, hours, demand, skill) ==
    [shift_id |-> id, hours |-> hours, demand |-> demand, required_skill |-> skill]

AvailRow(n, s, a) == [nurse_id |-> n, shift_id |-> s, available |-> a]

PrefRow(n, s, score) == [nurse_id |-> n, shift_id |-> s, score |-> score]

KnownPairs == << <<"A", "S1">>, <<"A", "S2">>, <<"B", "S1">>, <<"B", "S2">> >>

\* The availability table with, for the i-th known pair, no row (f[i] = -1),
\* a row saying 0 or a row saying 1.
AvailTable(f) ==
    LET all == [i \in 1..Len(KnownPairs) |->
                  AvailRow(KnownPairs[i][1], KnownPairs[i][2], f[i])]
    IN SelectSeq(all, LAMBDA r : r.available >= 0)

FullAvailability == AvailTable([i \in 1..Len(KnownPairs) |-> 1])

SkillNames == {"GENERAL", "ICU", "icu"}
DemandVals == 0..MaxDemand

Settings(ot, cost, us, penalty, weight) ==
    /\ allow_overtime = ot
    /\ overtime_cost = cost
    /\ allow_understaff = us
    /\ understaff_penalty = penalty
    /\ preference_weight = weight

\* Availability varies pair by pair (no row, 0, 1), and so does the demand.
InitAvailability ==
    /\ nurses_df = <<NurseRow("A", 40, "GENERAL"), NurseRow("B", 40, "ICU")>>
    /\ \E d1 \in DemandVals, d2 \in DemandVals :
         shifts_df = <<ShiftRow("S1", 8, d1, "GENERAL"), ShiftRow("S2", 8, d2, "ICU")>>
    /\ \E f \in [1..Len(KnownPairs) -> {-1, 0, 1}] : availability_df = AvailTable(f)
    /\ preferences_df = NoTable
    /\ \E up \in {<<FALSE, 50>>, <<TRUE, 0>>, <<TRUE, 50>>} :
         Settings(FALSE, 10, up[1], up[2], 0)

\* Skills vary, in either case; preferences pull a nurse towards a shift.
InitSkill ==
    /\ \E a \in SkillNames, b \in SkillNames :
         nurses_df = <<NurseRow("A", 40, a), NurseRow("B", 40, b)>>
    /\ \E r1 \in SkillNames, r2 \in SkillNames :
         shifts_df = <<ShiftRow("S1", 8, 1, r1), ShiftRow("S2", 8, 1, r2)>>
    /\ availability_df = FullAvailability
    /\ \E pw \in {<<NoTable, 0>>, <<Table(<<>>), 2>>,
                  <<Table(<<PrefRow("A", "S2", 5), PrefRow("B", "S1", -3)>>), 0>>,
                  <<Table(<<PrefRow("A", "S2", 5), PrefRow("B", "S1", -3)>>), 2>>} :
         /\ preferences_df = pw[1]
         /\ \E us \in BOOLEAN : Settings(FALSE, 10, us, 50, pw[2])

\* Hours, weekly limits and demand vary; overtime may be needed.
InitHours ==
    /\ \E ma \in {8, 40}, mb \in {8, 40} :
         nurses_df = <<NurseRow("A", ma, "GENERAL"), NurseRow("B", mb, "GENERAL")>>
    /\ \E h2 \in {8, 16}, d1 \in DemandVals, d2 \in DemandVals :
         shifts_df = <<ShiftRow("S1", 8, d1, "GENERAL"), ShiftRow("S2", h2, d2, "GENERAL")>>
    /\ availability_df \in {FullAvailability, AvailTable(<<1, 1, -1, -1>>)}
    /\ preferences_df = NoTable
    /\ \E c \in {<<FALSE, 10, FALSE, 50>>, <<TRUE, 0, FALSE, 50>>,
                 <<TRUE, 10, FALSE, 50>>, <<FALSE, 10, TRUE, 50>>,
                 <<TRUE, 10, TRUE, 100>>} :
         Settings(c[1], c[2], c[3], c[4], 0)

\* Rows of the availability or preference table name a nurse or a shift that
\* the nurse and shift tables do not have.
InitUnknown ==
    /\ nurses_df = <<NurseRow("A", 40, "GENERAL"), NurseRow("B", 40, "ICU")>>
    /\ shifts_df = <<ShiftRow("S1", 8, 1, "GENERAL"), ShiftRow("S2", 8, 1, "ICU")>>
    /\ \E extra \in {<<>>, <<AvailRow("Z", "S1", 1)>>, <<AvailRow("A", "S9", 1)>>,
                     <<AvailRow("Z", "S9", 0)>>} :
         availability_df = FullAvailability \o extra
    /\ preferences_df \in {NoTable, Table(<<PrefRow("Z", "S1", 4)>>),
                           Table(<<PrefRow("B", "S9", 4)>>)}
    /\ \E us \in BOOLEAN, weight \in {0, 2} : Settings(FALSE, 10, us, 50, weight)

\* The inputs of the calls that are repeated with another penalty: unmet
\* demand trades against overtime and against disliked shifts.
InitRerun ==
    /\ \E ma \in {8, 40} :
         nurses_df = <<NurseRow("A", ma, "GENERAL"), NurseRow("B", 40, "GENERAL")>>
    /\ \E d1 \in 1..MaxDemand :
         shifts_df = <<ShiftRow("S1", 8, d1, "GENERAL"), ShiftRow("S2", 8, 1, "GENERAL")>>
    /\ availability_df \in {FullAvailability, AvailTable(<<1, 1, -1, -1>>)}
    /\ \E pw \in {<<NoTable, 0>>,
                  <<Table(<<PrefRow("A", "S1", -60), PrefRow("B", "S2", -60)>>), 1>>} :
         /\ preferences_df = pw[1]
         /\ \E ot \in BOOLEAN, us \in BOOLEAN, penalty \in PenaltyVals :
              Settings(ot, 10, us, penalty, pw[2])

Init ==
    /\ InitAvailability \/ InitSkill \/ InitHours \/ InitUnknown
    /\ Blank
    /\ history = <<>>

Next == EntityIndex \/ BuildModel \/ Solve \/ ExtractResults

Spec == Init /\ [][Next]_vars

InitTwice ==
    /\ InitRerun
    /\ Blank
    /\ history = <<>>

NextTwice == EntityIndex \/ BuildModel \/ Solve \/ ExtractResults \/ Rerun

SpecRerun == InitTwice /\ [][NextTwice]_vars

(***************************************************************************)
(* What the properties below read: the tables given to the call and the    *)
(* tables it returned.                                                     *)
(***************************************************************************)
InputNurses == {nurses_df[i].nurse_id : i \in 1..Len(nurses_df)}
InputShifts == {shifts_df[i].shift_id : i \in 1..Len(shifts_df)}

NurseRowOf(n) == nurses_df[CHOOSE i \in 1..Len(nurses_df) : nurses_df[i].nurse_id = n]
ShiftRowOf(s) == shifts_df[CHOOSE i \in 1..Len(shifts_df) : shifts_df[i].shift_id = s]

\* the rows of the availability table for the pair (n, s)
AvailabilityRows(n, s) ==
    {i \in 1..Len(availability_df) :
        availability_df[i].nurse_id = n /\ availability_df[i].shift_id = s}

\* the pair has no row, or its rows say 0
NotAvailable(n, s) == \A i \in AvailabilityRows(n, s) : availability_df[i].available = 0

\* a skill name that is ICU in some case
IsICU(name) == name \in {"ICU", "icu", "Icu", "iCU", "IcU", "ICu", "icU", "iCu"}

\* nurse n lacks the skill that shift s requires
LacksSkill(n, s) ==
    IsICU(ShiftRowOf(s).required_skill) /\ ~IsICU(NurseRowOf(n).skill_level)

\* the rows of the returned assignments for the pair (n, s)
AssignmentRowsOf(n, s) ==
    {i \in 1..Len(assignments_df) :
        assignments_df[i].nurse_id = n /\ assignments_df[i].shift_id = s}

\* the returned assignments have exactly one row for (n, s), and it says v
Assigned(n, s, v) ==
    /\ Cardinality(AssignmentRowsOf(n, s)) = 1
    /\ \A i \in AssignmentRowsOf(n, s) : assignments_df[i].assigned = v

\* the hours of the shifts the returned assignments give nurse n
AssignedHours(n) ==
    Sum([i \in 1..Len(shifts_df) |->
           IF Assigned(n, shifts_df[i].shift_id, 1) THEN shifts_df[i].hours ELSE 0])

\* the nurses the returned assignments put on shift s
Staff(s) == {n \in InputNurses : Assigned(n, s, 1)}

Returned == pc = "done"
AcceptedResult == pc = "done" /\ status = "Optimal"

(***************************************************************************)
(* C1  Availability.                                                       *)
(***************************************************************************)
\* C1: in every result with status Optimal, a (nurse, shift) pair whose
\* availability row says 0, or that has no availability row, is assigned 0.
C1_Availability ==
    AcceptedResult =>
        \A n \in InputNurses, s \in InputShifts : NotAvailable(n, s) => Assigned(n, s, 0)

\* An Optimal result where one pair has no row, another a row saying 0, and a
\* third, available, pair is assigned.
C1_Witness ==
    /\ AcceptedResult
    /\ \E n \in InputNurses, s \in InputShifts : AvailabilityRows(n, s) = {}
    /\ \E n \in InputNurses, s \in InputShifts :
         AvailabilityRows(n, s) # {} /\ NotAvailable(n, s)
    /\ \E n \in InputNurses, s \in InputShifts : Assigned(n, s, 1)

(***************************************************************************)
(* C2  Skill exclusion.                                                    *)
(***************************************************************************)
\* C2: in every result with status Optimal, a nurse whose skill_level is not
\* ICU is assigned 0 on every shift whose required_skill is ICU (in any case),
\* whatever the availability, the preference scores and the weights.
C2_SkillExclusion ==
    AcceptedResult =>
        \A n \in InputNurses, s \in InputShifts : LacksSkill(n, s) => Assigned(n, s, 0)

\* An Optimal result where a non-ICU nurse is available for a shift requiring
\* "icu", a preference with non-zero weight rewards that very pair, and the
\* nurse works elsewhere.
C2_Witness ==
    /\ AcceptedResult
    /\ preference_weight > 0
    /\ \E n \in InputNurses, s \in InputShifts :
         /\ LacksSkill(n, s)
         /\ ShiftRowOf(s).required_skill = "icu"
         /\ ~NotAvailable(n, s)
         /\ Get(preference_lookup, <<n, s>>, 0) > 0
         /\ \E s2 \in InputShifts : Assigned(n, s2, 1)

(***************************************************************************)
(* C3  Hour limit.                                                         *)
(***************************************************************************)
\* C3: in every result with status Optimal, each nurse's assigned hours are at
\* most max_hours_per_week plus the overtime the same result reports for them.
C3_HourLimit ==
    AcceptedResult =>
        \A n \in InputNurses :
            AssignedHours(n) <= NurseRowOf(n).max_hours_per_week + overtime_dict[n]

\* An Optimal result where a nurse works beyond the weekly limit, the reported
\* overtime being exactly the excess.
C3_Witness ==
    /\ AcceptedResult
    /\ \E n \in InputNurses :
         /\ overtime_dict[n] > 0
         /\ AssignedHours(n) = NurseRowOf(n).max_hours_per_week + overtime_dict[n]

(***************************************************************************)
(* C4  No-understaff mode.                                                 *)
(***************************************************************************)
\* C4: with allow_understaff = false, either the status is Infeasible, or every
\* shift has at least demand(s) nurses assigned and unmet demand 0.
C4_NoUnderstaff ==
    (Returned /\ ~allow_understaff) =>
        \/ status = "Infeasible"
        \/ \A s \in InputShifts :
              /\ Cardinality(Staff(s)) >= ShiftRowOf(s).demand
              /\ unmet_demand[s] = 0

\* A result with understaffing disallowed that is not Infeasible, where a shift
\* asks for two nurses.
C4_Witness ==
    /\ Returned /\ ~allow_understaff
    /\ status = "Optimal"
    /\ \E s \in InputShifts : ShiftRowOf(s).demand = 2 /\ Cardinality(Staff(s)) = 2

(***************************************************************************)
(* C5  No-overtime pinning.                                                *)
(***************************************************************************)
\* C5: with allow_overtime = false, every result with status Optimal reports
\* overtime 0 for every nurse, and no nurse's assigned hours exceed
\* max_hours_per_week.
C5_NoOvertime ==
    (AcceptedResult /\ ~allow_overtime) =>
        \A n \in InputNurses :
            /\ overtime_dict[n] = 0
            /\ AssignedHours(n) <= NurseRowOf(n).max_hours_per_week

\* An Optimal result with overtime disallowed where a nurse works exactly the
\* weekly limit.
C5_Witness ==
    /\ AcceptedResult /\ ~allow_overtime
    /\ \E n \in InputNurses :
         /\ AssignedHours(n) > 0
         /\ AssignedHours(n) = NurseRowOf(n).max_hours_per_week

(***************************************************************************)
(* C6  No-overtime infeasibility.                                          *)
(***************************************************************************)
\* an assignment that respects availability and skill
Admissible(a) ==
    \A n \in InputNurses, s \in InputShifts :
        a[n][s] = 1 => ~NotAvailable(n, s) /\ ~LacksSkill(n, s)

\* an assignment that meets every shift's demand
MeetsDemand(a) ==
    \A s \in InputShifts :
        Cardinality({n \in InputNurses : a[n][s] = 1}) >= ShiftRowOf(s).demand

\* an assignment under which no nurse exceeds max_hours_per_week
WithinHours(a) ==
    \A n \in InputNurses :
        Sum([i \in 1..Len(shifts_df) |-> shifts_df[i].hours * a[n][shifts_df[i].shift_id]])
            <= NurseRowOf(n).max_hours_per_week

Assignments == [InputNurses -> [InputShifts -> {0, 1}]]

\* no assignment respecting availability and skill meets every demand without
\* some nurse exceeding the weekly limit
CannotCoverWithinHours ==
    ~\E a \in Assignments : Admissible(a) /\ MeetsDemand(a) /\ WithinHours(a)

\* C6 as stated: with allow_overtime = false, for every setting of
\* allow_understaff, the status is Infeasible whenever demand cannot be met
\* without some nurse exceeding max_hours_per_week.
C6_AnyUnderstaffSetting ==
    (Returned /\ ~allow_overtime /\ CannotCoverWithinHours) => status = "Infeasible"

\* C6 amended: with allow_overtime = false and allow_understaff = false, the
\* status is Infeasible whenever demand cannot be met without some nurse
\* exceeding max_hours_per_week.
C6_NoOvertimeInfeasible ==
    (Returned /\ ~allow_overtime /\ ~allow_understaff /\ CannotCoverWithinHours)
        => status = "Infeasible"

\* An Infeasible result, overtime and understaffing disallowed, where the
\* weekly limits alone stand in the way: with overtime the demand could be met.
C6_Witness ==
    /\ Returned /\ ~allow_overtime /\ ~allow_understaff
    /\ CannotCoverWithinHours
    /\ \E a \in Assignments : Admissible(a) /\ MeetsDemand(a)
    /\ status = "Infeasible"

(***************************************************************************)
(* C7, C8  The two-nurse, two-shift scenario.                              *)
(***************************************************************************)
ScenarioTables ==
    /\ nurses_df = <<NurseRow("A", 40, "GENERAL"), NurseRow("B", 40, "ICU")>>
    /\ shifts_df = <<ShiftRow("S1", 8, 1, "GENERAL"), ShiftRow("S2", 8, 1, "ICU")>>

\* both nurses available for both shifts, overtime and understaffing disallowed
Scenario ==
    /\ ScenarioTables
    /\ availability_df = FullAvailability
    /\ ~allow_overtime /\ ~allow_understaff

\* the same with B's availability for S2 removed and understaffing allowed
ScenarioUnderstaffed ==
    /\ ScenarioTables
    /\ availability_df = AvailTable(<<1, 1, 1, -1>>)
    /\ ~allow_overtime /\ allow_understaff

\* the values of x for which some o and u make the model feasible
FeasibleAssignments ==
    {vx \in FeasibleX(model) : FeasibleO(model, vx) # {} /\ FeasibleU(model, vx) # {}}

\* C7 as stated: in the scenario the model has exactly one feasible
\* assignment, A on S1 alone and B on S2 alone; that is what is returned, with
\* status Optimal and all overtime 0.
C7_UniqueAssignment ==
    Scenario =>
        /\ pc = "built" =>
             FeasibleAssignments =
                 {[n \in {"A", "B"} |-> [s \in {"S1", "S2"} |->
                     IF <<n, s>> \in {<<"A", "S1">>, <<"B", "S2">>} THEN 1 ELSE 0]]}
        /\ pc = "done" =>
             /\ status = "Optimal"
             /\ overtime_dict["A"] = 0 /\ overtime_dict["B"] = 0
             /\ Assigned("A", "S1", 1) /\ Assigned("B", "S2", 1)
             /\ Assigned("A", "S2", 0) /\ Assigned("B", "S1", 0)

\* C7 amended: in the scenario the feasible assignments are those with B on
\* S2, A not on S2 and S1 covered by A, by B or by both (three of them); the
\* status is Optimal, all overtime is 0 and the returned assignment is one of
\* the three.
C7_Scenario ==
    Scenario =>
        /\ pc = "built" =>
             FeasibleAssignments =
                 {vx \in XDomain(model) :
                     /\ vx["B"]["S2"] = 1 /\ vx["A"]["S2"] = 0
                     /\ vx["A"]["S1"] + vx["B"]["S1"] >= 1}
        /\ pc = "done" =>
             /\ status = "Optimal"
             /\ overtime_dict["A"] = 0 /\ overtime_dict["B"] = 0
             /\ Assigned("B", "S2", 1) /\ Assigned("A", "S2", 0)
             /\ Assigned("A", "S1", 1) \/ Assigned("B", "S1", 1)

\* The scenario returns with B covering both shifts and A idle.
C7_Witness ==
    /\ Scenario /\ pc = "done"
    /\ Assigned("B", "S1", 1) /\ Assigned("B", "S2", 1)
    /\ Assigned("A", "S1", 0) /\ Assigned("A", "S2", 0)

\* C8 as stated: in the scenario with B's availability for S2 removed and
\* understaffing allowed, for every penalty >= 0, 0 included, the status is
\* Optimal and unmet_by_shift[S2] is exactly 1.
C8_AnyPenalty ==
    (ScenarioUnderstaffed /\ Returned /\ understaff_penalty >= 0) =>
        status = "Optimal" /\ unmet_demand["S2"] = 1

\* C8 amended: the same for every penalty > 0.
C8_PositivePenalty ==
    (ScenarioUnderstaffed /\ Returned /\ understaff_penalty > 0) =>
        status = "Optimal" /\ unmet_demand["S2"] = 1

\* The understaffed scenario returns under a positive penalty, S2 short of one
\* nurse and S1 covered.
C8_Witness ==
    /\ ScenarioUnderstaffed /\ Returned /\ understaff_penalty > 0
    /\ status = "Optimal" /\ unmet_demand["S2"] = 1 /\ unmet_demand["S1"] = 0
    /\ Staff("S2") = {} /\ Staff("S1") # {}

(***************************************************************************)
(* C9  Monotonicity in understaff_penalty.                                 *)
(***************************************************************************)
\* the total of an unmet-demand mapping over the shifts
TotalUnmet(unmet) == Sum([i \in 1..Len(shifts_df) |-> unmet[shifts_df[i].shift_id]])

\* C9: of two calls that differ only in understaff_penalty, both Optimal, the
\* one with the larger penalty has no more total unmet demand than the other,
\* whichever optimal solutions the engine returns.
C9_PenaltyMonotone ==
    AcceptedResult =>
        \A i \in 1..Len(history) :
            history[i].status = "Optimal" =>
                /\ history[i].understaff_penalty < understaff_penalty =>
                     TotalUnmet(unmet_demand) <= TotalUnmet(history[i].unmet_demand)
                /\ history[i].understaff_penalty > understaff_penalty =>
                     TotalUnmet(history[i].unmet_demand) <= TotalUnmet(unmet_demand)

\* Two Optimal calls, understaffing allowed, where the larger penalty strictly
\* lowers the total unmet demand.
C9_Witness ==
    /\ AcceptedResult /\ allow_understaff
    /\ \E i \in 1..Len(history) :
         /\ history[i].status = "Optimal"
         /\ 0 < history[i].understaff_penalty
         /\ history[i].understaff_penalty < understaff_penalty
         /\ TotalUnmet(unmet_demand) < TotalUnmet(history[i].unmet_demand)

(***************************************************************************)
(* C10  Validation of the identifiers the tables reference.                *)
(***************************************************************************)
\* a row of the table names a nurse or a shift the nurse and shift tables lack
UnknownReference(rows) ==
    \E i \in 1..Len(rows) :
        rows[i].nurse_id \notin InputNurses \/ rows[i].shift_id \notin InputShifts

HasUnknownReference ==
    UnknownReference(availability_df) \/ UnknownReference(preferences_df.rows)

\* C10 as stated: when an availability or preference row references an unknown
\* nurse_id or shift_id, the call fails before any model is built: no model,
\* no solve, nothing returned.
C10_FailsBeforeModel ==
    HasUnknownReference =>
        /\ pc \in {"start", "indexed"}
        /\ model = <<>>
        /\ status = "Not Solved"
        /\ assignments_df = <<>> /\ overtime_dict = <<>> /\ unmet_demand = <<>>

====
